---- MODULE Spec2Model ----
(***************************************************************************)
(* A model of app.py of asakatsu-light: the wake-up log (table wakeups),   *)
(* the award ledger (table user_titles), the title catalog (table titles), *)
(* the login handler index(), the title-evaluation engine it calls after a *)
(* correct quiz answer, and the pages that read the tables.                *)
(*                                                                         *)
(* A day string "YYYY-MM-DD" is the tuple <<y, m, d>> and a time string    *)
(* "HH:MM:SS" the tuple <<h, m, s>>: the strings are zero-padded, so the   *)
(* text order SQL uses on them is the lexicographic order of the tuples.   *)
(* Dates are turned into ordinals only where the code parses them.         *)
(***************************************************************************)
EXTENDS Integers, Sequences, FiniteSets, TLC

VARIABLES now, wakeups, user_titles, titles, req, resp, page

vars == <<now, wakeups, user_titles, titles, req, resp, page>>

(***************************************************************************)
(* Bounds of the model.                                                    *)
(***************************************************************************)
\* the clock runs over the days Epoch .. Epoch + MaxDay
MaxDay == 2
\* at most this many rows are inserted into wakeups by login requests
MaxEvents == 4
\* the drawn histories of the streak specification cover Epoch .. Epoch + MaxHist
MaxHist == 14
\* the drawn logs of the rule specification hold at most this many events
MaxLog == 4
\* the drawn logs of the rule specification cover today and MaxBack days back
MaxBack == 3
\* the engine is run at most this many times on one drawn log
MaxRuns == 2

Users == {"alice", "bob"}
Procs == {1, 2}

\* text order of the user names (ORDER BY name ASC)
NameRank(n) == IF n = "alice" THEN 1 ELSE 2

Epoch == <<2025, 12, 30>>

(***************************************************************************)
(* Calendar arithmetic of datetime.date.                                   *)
(***************************************************************************)
IsLeap(y) == (y % 4 = 0) /\ ((y % 100 # 0) \/ (y % 400 = 0))

DaysInMonth(y, m) ==
    IF m = 2 THEN (IF IsLeap(y) THEN 29 ELSE 28)
    ELSE IF m \in {4, 6, 9, 11} THEN 30 ELSE 31

RECURSIVE DaysBeforeMonth(_, _)
DaysBeforeMonth(y, m) ==
    IF m = 1 THEN 0 ELSE DaysBeforeMonth(y, m - 1) + DaysInMonth(y, m - 1)

DaysBeforeYear(y) ==
    LET p == y - 1 IN p * 365 + (p \div 4) - (p \div 100) + (p \div 400)

\* datetime.strptime(d, "%Y-%m-%d").date(), as the ordinal date subtraction uses
ParseDay(d) == DaysBeforeYear(d[1]) + DaysBeforeMonth(d[1], d[2]) + d[3]

\* date + timedelta(days=1)
NextDay(d) ==
    IF d[3] < DaysInMonth(d[1], d[2]) THEN <<d[1], d[2], d[3] + 1>>
    ELSE IF d[2] < 12 THEN <<d[1], d[2] + 1, 1>>
    ELSE <<d[1] + 1, 1, 1>>

\* date - timedelta(days=1)
PrevDay(d) ==
    IF d[3] > 1 THEN <<d[1], d[2], d[3] - 1>>
    ELSE IF d[2] > 1 THEN <<d[1], d[2] - 1, DaysInMonth(d[1], d[2] - 1)>>
    ELSE <<d[1] - 1, 12, 31>>

\* (today - timedelta(days=i)).strftime("%Y-%m-%d")
RECURSIVE DayMinus(_, _)
DayMinus(d, i) == IF i = 0 THEN d ELSE DayMinus(PrevDay(d), i - 1)

RECURSIVE DayPlus(_, _)
DayPlus(d, i) == IF i = 0 THEN d ELSE DayPlus(NextDay(d), i - 1)

\* text order of two zero-padded strings of three fields
TextLess(a, b) ==
    \/ a[1] < b[1]
    \/ a[1] = b[1] /\ a[2] < b[2]
    \/ a[1] = b[1] /\ a[2] = b[2] /\ a[3] < b[3]

\* the least / greatest string of a non-empty set, in text order
TextMin(S) == CHOOSE x \in S : \A z \in S : z = x \/ TextLess(x, z)
TextMax(S) == CHOOSE x \in S : \A z \in S : z = x \/ TextLess(z, x)

\* ORDER BY ... DESC of a set of strings
RECURSIVE SortDesc(_)
SortDesc(S) ==
    IF S = {} THEN <<>>
    ELSE LET x == TextMax(S) IN <<x>> \o SortDesc(S \ {x})

\* LIMIT n
Limit(s, n) == IF Len(s) <= n THEN s ELSE SubSeq(s, 1, n)

(***************************************************************************)
(* Queries of the event store.                                             *)
(***************************************************************************)
LoginDaysLimit == 60
WakeupsLimit == 10

\* SELECT DISTINCT day FROM wakeups WHERE name = %s ORDER BY day DESC LIMIT %s
get_user_login_days(w, user_name, limit) ==
    Limit(SortDesc({w[i].day : i \in {j \in 1..Len(w) : w[j].name = user_name}}), limit)

\* mutant: MAX(ts), the last login of a day, instead of MIN(ts)
get_user_wakeups_last(w, user_name, limit) ==
    LET mine == {j \in 1..Len(w) : w[j].name = user_name}
        days == SortDesc({w[i].day : i \in mine})
        lastTs(d) == TextMax({w[i].ts : i \in {j \in mine : w[j].day = d}})
    IN  Limit([k \in 1..Len(days) |-> [day |-> days[k], ts |-> lastTs(days[k])]], limit)

\* SELECT day, MIN(ts) FROM wakeups WHERE name = %s GROUP BY day
\* ORDER BY day DESC LIMIT %s
get_user_wakeups(w, user_name, limit) ==
    LET mine == {j \in 1..Len(w) : w[j].name = user_name}
        days == SortDesc({w[i].day : i \in mine})
        firstTs(d) == TextMin({w[i].ts : i \in {j \in mine : w[j].day = d}})
    IN  Limit([k \in 1..Len(days) |-> [day |-> days[k], ts |-> firstTs(days[k])]], limit)

\* mutant: ORDER BY ts ASC, name DESC
fastest_riser_name_desc(w, d) ==
    LET there == {j \in 1..Len(w) : w[j].day = d}
        names == {w[i].name : i \in there}
        minTs(n) == TextMin({w[i].ts : i \in {j \in there : w[j].name = n}})
        before(a, b) == \/ TextLess(minTs(a), minTs(b))
                        \/ minTs(a) = minTs(b) /\ NameRank(a) > NameRank(b)
    IN  IF names = {} THEN ""
        ELSE CHOOSE n \in names : \A z \in names : z = n \/ before(n, z)

\* SELECT name, MIN(ts) AS ts FROM wakeups WHERE day = %s GROUP BY name
\* ORDER BY ts ASC, name ASC LIMIT 1; "" stands for no row (None)
fastest_riser(w, d) ==
    LET there == {j \in 1..Len(w) : w[j].day = d}
        names == {w[i].name : i \in there}
        minTs(n) == TextMin({w[i].ts : i \in {j \in there : w[j].name = n}})
        before(a, b) == \/ TextLess(minTs(a), minTs(b))
                        \/ minTs(a) = minTs(b) /\ NameRank(a) < NameRank(b)
    IN  IF names = {} THEN ""
        ELSE CHOOSE n \in names : \A z \in names : z = n \/ before(n, z)

(***************************************************************************)
(* Pure helpers of the engine.                                             *)
(***************************************************************************)
RECURSIVE StreakLoop(_, _, _, _)
StreakLoop(days_desc, i, prev, streak) ==
    IF i > Len(days_desc) THEN streak
    ELSE LET cur == ParseDay(days_desc[i])
         IN  IF prev - cur = 1
             THEN StreakLoop(days_desc, i + 1, cur, streak + 1)
             ELSE streak

\* mutant: the loop goes on after a gap instead of stopping at it
RECURSIVE StreakLoopNoBreak(_, _, _, _)
StreakLoopNoBreak(days_desc, i, prev, streak) ==
    IF i > Len(days_desc) THEN streak
    ELSE LET cur == ParseDay(days_desc[i])
         IN  StreakLoopNoBreak(days_desc, i + 1, cur,
                               IF prev - cur = 1 THEN streak + 1 ELSE streak)

calc_streak_no_break(days_desc) ==
    IF days_desc = <<>> THEN 0
    ELSE StreakLoopNoBreak(days_desc, 2, ParseDay(days_desc[1]), 1)

calc_streak_days(days_desc) ==
    IF days_desc = <<>> THEN 0
    ELSE StreakLoop(days_desc, 2, ParseDay(days_desc[1]), 1)

RECURSIVE ConsecutiveLoop(_, _, _, _)
ConsecutiveLoop(days_desc, i, need, prev) ==
    IF i > need THEN TRUE
    ELSE LET cur == ParseDay(days_desc[i])
         IN  IF prev - cur # 1 THEN FALSE
             ELSE ConsecutiveLoop(days_desc, i + 1, need, cur)

is_consecutive_days(days_desc, need) ==
    IF Len(days_desc) < need THEN FALSE
    ELSE ConsecutiveLoop(days_desc, 2, need, ParseDay(days_desc[1]))

\* _parse_time: "HH:MM:SS" split on ":" into a time(h, m, s)
parse_time(ts) == [hour |-> ts[1], minute |-> ts[2], second |-> ts[3]]

\* minutes(t) of evaluate_and_grant_regular_3: seconds are dropped
minutes(t) == t.hour * 60 + t.minute

Abs(x) == IF x < 0 THEN 0 - x ELSE x

RegularWindow == 30
NoonHour == 12
NoSleepHour == 4

\* mutant: only today's and yesterday's times are compared
regular_check_first_pair(logs) ==
    IF Len(logs) < 3 THEN FALSE
    ELSE IF ~is_consecutive_days([k \in 1..Len(logs) |-> logs[k].day], 3) THEN FALSE
    ELSE Abs(minutes(parse_time(logs[1].ts)) - minutes(parse_time(logs[2].ts)))
            <= RegularWindow

\* the decision of evaluate_and_grant_regular_3 on the rows it has read
regular_check(logs) ==
    IF Len(logs) < 3 THEN FALSE
    ELSE IF ~is_consecutive_days([k \in 1..Len(logs) |-> logs[k].day], 3) THEN FALSE
    ELSE LET t0 == minutes(parse_time(logs[1].ts))
             t1 == minutes(parse_time(logs[2].ts))
             t2 == minutes(parse_time(logs[3].ts))
             ok01 == Abs(t0 - t1) <= RegularWindow
             ok12 == Abs(t1 - t2) <= RegularWindow
         IN  ok01 /\ ok12

is_noon(ts) == parse_time(ts).hour >= NoonHour

\* the decision of evaluate_and_grant_noon_3 on the rows it has read
noon_check(logs) ==
    IF Len(logs) < 3 THEN FALSE
    ELSE IF ~is_consecutive_days([k \in 1..Len(logs) |-> logs[k].day], 3) THEN FALSE
    ELSE \A k \in 1..3 : is_noon(logs[k].ts)

\* mutant: 04:00:00 itself is not counted
is_too_early_strict(ts) == parse_time(ts).hour < NoSleepHour

is_too_early(ts) ==
    LET t == parse_time(ts)
    IN  (t.hour < NoSleepHour) \/ (t.hour = NoSleepHour /\ t.minute = 0 /\ t.second = 0)

\* the decision of evaluate_and_grant_no_sleep_3 on the rows it has read
no_sleep_check(logs) ==
    IF Len(logs) < 3 THEN FALSE
    ELSE IF ~is_consecutive_days([k \in 1..Len(logs) |-> logs[k].day], 3) THEN FALSE
    ELSE \A k \in 1..3 : is_too_early(logs[k].ts)

\* the days evaluate_and_grant_earlyking_3 queries: today, today-1, today-2
earlyking_days(today_str) == [k \in 1..3 |-> DayMinus(today_str, k - 1)]

\* all(winners) and winners[0] == winners[1] == winners[2]
earlyking_check(winners) ==
    /\ \A k \in 1..3 : winners[k] # ""
    /\ winners[1] = winners[2]
    /\ winners[2] = winners[3]

(***************************************************************************)
(* The award ledger.                                                       *)
(***************************************************************************)
\* the seven codes seed_titles registers
TitleCodes ==
    {"streak_3", "streak_7", "streak_14", "regular_3", "noon_3", "earlyking_3", "no_sleep_3"}

\* mutant: a plain INSERT, the conflict clause and the UNIQUE constraint forgotten
grant_always_insert(ut, user_name, title_code, acquired_day) ==
    Append(ut, [user_name |-> user_name, title_code |-> title_code,
                acquired_day |-> acquired_day])

\* mutant: ON CONFLICT ... DO UPDATE SET acquired_day = EXCLUDED.acquired_day
grant_upsert(ut, user_name, title_code, acquired_day) ==
    IF \E i \in 1..Len(ut) : ut[i].user_name = user_name /\ ut[i].title_code = title_code
    THEN [i \in 1..Len(ut) |->
            IF ut[i].user_name = user_name /\ ut[i].title_code = title_code
            THEN [ut[i] EXCEPT !.acquired_day = acquired_day]
            ELSE ut[i]]
    ELSE Append(ut, [user_name |-> user_name, title_code |-> title_code,
                     acquired_day |-> acquired_day])

\* INSERT INTO user_titles ... ON CONFLICT (user_name, title_code) DO NOTHING
grant_title_if_not_owned(ut, user_name, title_code, acquired_day) ==
    IF \E i \in 1..Len(ut) : ut[i].user_name = user_name /\ ut[i].title_code = title_code
    THEN ut
    ELSE Append(ut, [user_name |-> user_name, title_code |-> title_code,
                     acquired_day |-> acquired_day])

(***************************************************************************)
(* The title catalog.                                                      *)
(***************************************************************************)
\* the list seed_titles registers, in its order: code and hidden flag
SeedList ==
    << [code |-> "streak_3", is_hidden |-> FALSE],
       [code |-> "streak_7", is_hidden |-> FALSE],
       [code |-> "streak_14", is_hidden |-> FALSE],
       [code |-> "regular_3", is_hidden |-> FALSE],
       [code |-> "noon_3", is_hidden |-> TRUE],
       [code |-> "earlyking_3", is_hidden |-> TRUE],
       [code |-> "no_sleep_3", is_hidden |-> TRUE] >>

\* INSERT INTO titles ... ON CONFLICT (code) DO UPDATE SET ... of one entry
UpsertTitle(t, e) ==
    IF \E i \in 1..Len(t) : t[i].code = e.code
    THEN [i \in 1..Len(t) |-> IF t[i].code = e.code THEN e ELSE t[i]]
    ELSE Append(t, e)

RECURSIVE SeedLoop(_, _)
SeedLoop(t, k) ==
    IF k > Len(SeedList) THEN t ELSE SeedLoop(UpsertTitle(t, SeedList[k]), k + 1)

\* seed_titles: the loop over the list, committed as one transaction
seed_titles(t) == SeedLoop(t, 1)

\* the user_name of a row of the LEFT JOIN whose title has no award (NULL)
NullUser == ""

\* ORDER BY ut.user_name ASC of the awards with the indices in J
RECURSIVE HoldersAsc(_, _)
HoldersAsc(ut, J) ==
    IF J = {} THEN <<>>
    ELSE LET j == CHOOSE x \in J :
                    \A y \in J : \/ NameRank(ut[x].user_name) < NameRank(ut[y].user_name)
                                 \/ /\ ut[x].user_name = ut[y].user_name
                                    /\ x <= y
         IN  <<ut[j].user_name>> \o HoldersAsc(ut, J \ {j})

\* the rows of titles t LEFT JOIN user_titles ut, from the k-th title on
RECURSIVE JoinRows(_, _, _)
JoinRows(t, ut, k) ==
    IF k > Len(t) THEN <<>>
    ELSE LET J == {j \in 1..Len(ut) : ut[j].title_code = t[k].code}
             names == IF J = {} THEN <<NullUser>> ELSE HoldersAsc(ut, J)
         IN  [i \in 1..Len(names) |->
                 [code |-> t[k].code, is_hidden |-> t[k].is_hidden,
                  user_name |-> names[i]]]
             \o JoinRows(t, ut, k + 1)

\* the loop "for code, name, desc, is_hidden, user_name in rows"
RECURSIVE ShapeRows(_, _, _)
ShapeRows(rows, k, acc) ==
    IF k > Len(rows) THEN acc
    ELSE LET r == rows[k]
             known == \E i \in 1..Len(acc) : acc[i].code = r.code
             acc1 == IF known THEN acc
                     ELSE Append(acc, [code |-> r.code, is_hidden |-> r.is_hidden,
                                       holders |-> <<>>])
             acc2 == IF r.user_name # NullUser
                     THEN [i \in 1..Len(acc1) |->
                             IF acc1[i].code = r.code
                             THEN [acc1[i] EXCEPT !.holders = Append(@, r.user_name)]
                             ELSE acc1[i]]
                     ELSE acc1
         IN  ShapeRows(rows, k + 1, acc2)

\* the loop "for t in titles.values()": hidden titles without holders are left out
RECURSIVE VisibleOnly(_, _)
VisibleOnly(ts, k) ==
    IF k > Len(ts) THEN <<>>
    ELSE (IF ts[k].is_hidden /\ Len(ts[k].holders) = 0 THEN <<>> ELSE <<ts[k]>>)
         \o VisibleOnly(ts, k + 1)

\* mutant: the hidden titles are not filtered out
fetch_titles_unfiltered(t, ut) ==
    ShapeRows(JoinRows(t, ut, 1), 1, <<>>)

fetch_titles_with_holders(t, ut) ==
    VisibleOnly(ShapeRows(JoinRows(t, ut, 1), 1, <<>>), 1)

(***************************************************************************)
(* The clock (jst_now) and the requests in flight.                         *)
(***************************************************************************)
\* the wall-clock times at which the model lets the clock stand
ClockTimes == {<<3, 0, 0>>, <<13, 0, 0>>}

NoDay == <<>>
NoTs == <<>>
NoStreak == -1

\* a worker with no request in flight
IdleReq ==
    [pc |-> "idle", name |-> "", today |-> NoDay, ts |-> NoTs,
     days_desc |-> <<>>, streak |-> NoStreak,
     regular_ok |-> FALSE, noon_ok |-> FALSE, nosleep_ok |-> FALSE,
     winners |-> <<>>, earlyking_user |-> "", runs |-> 0]

\* resp is the page sent last: its kind, and what a success page says
NoResponse == [kind |-> "none", streak |-> NoStreak, new_msgs |-> {}]

\* the form fields of a POST.  The name field is <<lead, text, trail>>: a text
\* without blanks at its ends, between two runs of blanks; a missing field is
\* the empty string, <<"", "", "">>.  The choice is what the handler finds it to be.
FormNames == {<<blanks, text, blanks>> : blanks \in {"", " "}, text \in Users \cup {""}}

\* request.form.get("name", "").strip()
strip(field) == field[2]
FormChoices == {"missing", "not_int", "wrong", "right"}

\* no page of the read endpoints has been served
NoPage == [kind |-> "none", titles |-> <<>>, user_query |-> "", rows |-> <<>>]

\* init_db and seed_titles at start-up, on a database without tables
InitDb ==
    /\ wakeups = <<>>
    /\ user_titles = <<>>
    /\ titles = seed_titles(<<>>)
    /\ page = NoPage

Init ==
    /\ now = [day |-> Epoch, ts |-> TextMin(ClockTimes)]
    /\ InitDb
    /\ req = [p \in Procs |-> IdleReq]
    /\ resp = NoResponse

\* the clock moves on within the day
TickTime ==
    /\ \E t \in ClockTimes :
          /\ TextLess(now.ts, t)
          /\ now' = [now EXCEPT !.ts = t]
    /\ UNCHANGED <<wakeups, user_titles, req, resp, titles, page>>

\* midnight passes
TickDay ==
    /\ ParseDay(now.day) - ParseDay(Epoch) < MaxDay
    /\ now' = [day |-> NextDay(now.day), ts |-> TextMin(ClockTimes)]
    /\ UNCHANGED <<wakeups, user_titles, req, resp, titles, page>>

(***************************************************************************)
(* index(): POST /                                                         *)
(***************************************************************************)
\* mutant: the answer is not compared with the quiz's answer_index
form_error_any_answer(name, choice) ==
    IF name = "" THEN "invalid"
    ELSE IF choice = "missing" THEN "invalid"
    ELSE IF choice = "not_int" THEN "invalid"
    ELSE ""

\* the early returns of the handler: which error page the form gets, "" for none
form_error(name, choice) ==
    IF name = "" THEN "invalid"
    ELSE IF choice = "missing" THEN "invalid"
    ELSE IF choice = "not_int" THEN "invalid"
    ELSE IF choice # "right" THEN "wrong"
    ELSE ""

\* the handler up to the INSERT: validation, the answer check, jst_now()
PostForm(p, field, choice) ==
    /\ req[p].pc = "idle"
    /\ LET name == strip(field)
           error == form_error(name, choice)
       IN IF error # ""
          THEN /\ resp' = [NoResponse EXCEPT !.kind = error]
               /\ UNCHANGED req
          ELSE /\ Len(wakeups) + Cardinality({q \in Procs : req[q].pc = "insert"}) < MaxEvents
               /\ req' = [req EXCEPT ![p] =
                             [IdleReq EXCEPT !.pc = "insert", !.name = name,
                                             !.today = now.day, !.ts = now.ts]]
               /\ UNCHANGED resp
    /\ UNCHANGED <<now, wakeups, user_titles, titles, page>>

Post(p) == \E field \in FormNames, choice \in FormChoices : PostForm(p, field, choice)

\* mutant: one row per user and day, a later login of the day replacing the row
InsertLatest(p) ==
    /\ req[p].pc = "insert"
    /\ LET keep == SelectSeq(wakeups, LAMBDA e : ~(e.name = req[p].name /\ e.day = req[p].today))
       IN  wakeups' = Append(keep, [name |-> req[p].name, ts |-> req[p].ts,
                                    day |-> req[p].today])
    /\ req' = [req EXCEPT ![p].pc = "streak"]
    /\ UNCHANGED <<now, user_titles, titles, resp, page>>

\* INSERT INTO wakeups (name, ts, day) VALUES (%s, %s, %s)
Insert(p) ==
    /\ req[p].pc = "insert"
    /\ wakeups' = Append(wakeups, [name |-> req[p].name, ts |-> req[p].ts,
                                   day |-> req[p].today])
    /\ req' = [req EXCEPT ![p].pc = "streak"]
    /\ UNCHANGED <<now, user_titles, resp, titles, page>>

(***************************************************************************)
(* evaluate_and_grant_streak_titles                                        *)
(***************************************************************************)
\* mutant: an if / elif chain from the top, which grants the highest tier only
streak_next_elif(streak, done) ==
    IF done > 0 THEN "regular"
    ELSE IF streak >= 14 THEN "grant_streak_14"
    ELSE IF streak >= 7 THEN "grant_streak_7"
    ELSE IF streak >= 3 THEN "grant_streak_3"
    ELSE "regular"

\* where the three "if streak >= N" statements go after the one for `done`
streak_next(streak, done) ==
    IF done < 3 /\ streak >= 3 THEN "grant_streak_3"
    ELSE IF done < 7 /\ streak >= 7 THEN "grant_streak_7"
    ELSE IF done < 14 /\ streak >= 14 THEN "grant_streak_14"
    ELSE "regular"

StreakRead(p) ==
    /\ req[p].pc = "streak"
    /\ LET days_desc == get_user_login_days(wakeups, req[p].name, LoginDaysLimit)
           streak == calc_streak_days(days_desc)
       IN  req' = [req EXCEPT ![p].days_desc = days_desc, ![p].streak = streak,
                              ![p].pc = streak_next(streak, 0)]
    /\ UNCHANGED <<now, wakeups, user_titles, resp, titles, page>>

StreakTier(pc) ==
    IF pc = "grant_streak_3" THEN 3 ELSE IF pc = "grant_streak_7" THEN 7 ELSE 14

StreakCode(n) ==
    IF n = 3 THEN "streak_3" ELSE IF n = 7 THEN "streak_7" ELSE "streak_14"

\* one of the grants of the streak tiers
GrantStreak(p) ==
    /\ req[p].pc \in {"grant_streak_3", "grant_streak_7", "grant_streak_14"}
    /\ LET n == StreakTier(req[p].pc)
       IN  /\ user_titles' = grant_title_if_not_owned(user_titles, req[p].name,
                                                      StreakCode(n), req[p].today)
           /\ req' = [req EXCEPT ![p].pc = streak_next(req[p].streak, n)]
    /\ UNCHANGED <<now, wakeups, resp, titles, page>>

(***************************************************************************)
(* evaluate_and_grant_regular_3 / noon_3 / no_sleep_3                      *)
(***************************************************************************)
RegularRead(p) ==
    /\ req[p].pc = "regular"
    /\ LET logs == get_user_wakeups(wakeups, req[p].name, WakeupsLimit)
       IN  IF regular_check(logs)
           THEN req' = [req EXCEPT ![p].pc = "grant_regular"]
           ELSE req' = [req EXCEPT ![p].regular_ok = FALSE, ![p].pc = "noon"]
    /\ UNCHANGED <<now, wakeups, user_titles, resp, titles, page>>

GrantRegular(p) ==
    /\ req[p].pc = "grant_regular"
    /\ user_titles' = grant_title_if_not_owned(user_titles, req[p].name,
                                               "regular_3", req[p].today)
    /\ req' = [req EXCEPT ![p].regular_ok = TRUE, ![p].pc = "noon"]
    /\ UNCHANGED <<now, wakeups, resp, titles, page>>

NoonRead(p) ==
    /\ req[p].pc = "noon"
    /\ LET logs == get_user_wakeups(wakeups, req[p].name, WakeupsLimit)
       IN  IF noon_check(logs)
           THEN req' = [req EXCEPT ![p].pc = "grant_noon"]
           ELSE req' = [req EXCEPT ![p].noon_ok = FALSE, ![p].pc = "no_sleep"]
    /\ UNCHANGED <<now, wakeups, user_titles, resp, titles, page>>

GrantNoon(p) ==
    /\ req[p].pc = "grant_noon"
    /\ user_titles' = grant_title_if_not_owned(user_titles, req[p].name,
                                               "noon_3", req[p].today)
    /\ req' = [req EXCEPT ![p].noon_ok = TRUE, ![p].pc = "no_sleep"]
    /\ UNCHANGED <<now, wakeups, resp, titles, page>>

NoSleepRead(p) ==
    /\ req[p].pc = "no_sleep"
    /\ LET logs == get_user_wakeups(wakeups, req[p].name, WakeupsLimit)
       IN  IF no_sleep_check(logs)
           THEN req' = [req EXCEPT ![p].pc = "grant_no_sleep"]
           ELSE req' = [req EXCEPT ![p].nosleep_ok = FALSE, ![p].pc = "earlyking"]
    /\ UNCHANGED <<now, wakeups, user_titles, resp, titles, page>>

GrantNoSleep(p) ==
    /\ req[p].pc = "grant_no_sleep"
    /\ user_titles' = grant_title_if_not_owned(user_titles, req[p].name,
                                               "no_sleep_3", req[p].today)
    /\ req' = [req EXCEPT ![p].nosleep_ok = TRUE, ![p].pc = "earlyking"]
    /\ UNCHANGED <<now, wakeups, resp, titles, page>>

(***************************************************************************)
(* evaluate_and_grant_earlyking_3                                          *)
(***************************************************************************)
\* one pass of the loop "for d in days": one SELECT, each its own statement
EarlykingSelect(p) ==
    /\ req[p].pc = "earlyking"
    /\ LET d == earlyking_days(req[p].today)[Len(req[p].winners) + 1]
           winners == Append(req[p].winners, fastest_riser(wakeups, d))
       IN  IF Len(winners) < 3
           THEN req' = [req EXCEPT ![p].winners = winners]
           ELSE IF earlyking_check(winners)
           THEN req' = [req EXCEPT ![p].winners = winners, ![p].pc = "grant_earlyking"]
           ELSE req' = [req EXCEPT ![p].winners = winners, ![p].earlyking_user = "",
                                   ![p].pc = "respond"]
    /\ UNCHANGED <<now, wakeups, user_titles, resp, titles, page>>

GrantEarlyking(p) ==
    /\ req[p].pc = "grant_earlyking"
    /\ user_titles' = grant_title_if_not_owned(user_titles, req[p].winners[1],
                                               "earlyking_3", req[p].today)
    /\ req' = [req EXCEPT ![p].earlyking_user = req[p].winners[1], ![p].pc = "respond"]
    /\ UNCHANGED <<now, wakeups, resp, titles, page>>

(***************************************************************************)
(* index(): the response after evaluate_and_grant_all_titles               *)
(***************************************************************************)
\* the titles the success page announces as acquired (new_msgs)
new_msgs(r) ==
    (IF r.regular_ok THEN {"regular_3"} ELSE {})
    \cup (IF r.noon_ok THEN {"noon_3"} ELSE {})
    \cup (IF r.nosleep_ok THEN {"no_sleep_3"} ELSE {})
    \cup (IF r.earlyking_user = r.name THEN {"earlyking_3"} ELSE {})

Respond(p) ==
    /\ req[p].pc = "respond"
    /\ resp' = [kind |-> "ok", streak |-> req[p].streak,
                 new_msgs |-> new_msgs(req[p])]
    /\ req' = [req EXCEPT ![p] = IdleReq]
    /\ UNCHANGED <<now, wakeups, user_titles, titles, page>>

\* get_db_conn() or a statement raises: the request ends with an error page
Fail(p) ==
    /\ req[p].pc \notin {"idle"}
    /\ resp' = [NoResponse EXCEPT !.kind = "error"]
    /\ req' = [req EXCEPT ![p] = IdleReq]
    /\ UNCHANGED <<now, wakeups, user_titles, titles, page>>

\* the steps of the workers P, and the clock
NextOf(P) ==
    \/ TickTime
    \/ TickDay
    \/ \E p \in P : Post(p)
    \/ \E p \in P : Insert(p)
    \/ \E p \in P : StreakRead(p)
    \/ \E p \in P : GrantStreak(p)
    \/ \E p \in P : RegularRead(p)
    \/ \E p \in P : GrantRegular(p)
    \/ \E p \in P : NoonRead(p)
    \/ \E p \in P : GrantNoon(p)
    \/ \E p \in P : NoSleepRead(p)
    \/ \E p \in P : GrantNoSleep(p)
    \/ \E p \in P : EarlykingSelect(p)
    \/ \E p \in P : GrantEarlyking(p)
    \/ \E p \in P : Respond(p)
    \/ \E p \in P : Fail(p)

(***************************************************************************)
(* Spec: one worker serves the requests one after the other, from the      *)
(* empty database.                                                         *)
(***************************************************************************)
Next == NextOf({1})

Spec == Init /\ [][Next]_vars

(***************************************************************************)
(* SpecRace: two workers serve requests at the same time.  The database    *)
(* starts with the log one worker leaves after alice's logins on the first *)
(* day, or on the first two days: no title is due yet.                     *)
(***************************************************************************)
\* the log of MaxDay logins of alice, all at time t, on the first n days
RaceHistory(n, t) ==
    [k \in 1..MaxDay |->
        [name |-> "alice", ts |-> t,
         day |-> DayPlus(Epoch, IF k > MaxDay - n THEN k - 1 - (MaxDay - n) ELSE 0)]]

InitRace ==
    /\ \E n \in 1..MaxDay, t \in ClockTimes :
          /\ wakeups = RaceHistory(n, t)
          /\ now = [day |-> DayPlus(Epoch, n), ts |-> TextMin(ClockTimes)]
    /\ user_titles = <<>>
    /\ titles = seed_titles(<<>>)
    /\ page = NoPage
    /\ req = [p \in Procs |-> IdleReq]
    /\ resp = NoResponse

NextRace == NextOf(Procs)

SpecRace == InitRace /\ [][NextRace]_vars

(***************************************************************************)
(* The engine on drawn logs.  The database holds a log drawn from a        *)
(* bounded set, in the order of the clock, and worker 1 stands right after *)
(* the INSERT of the last event of its user on the last day of the log.    *)
(***************************************************************************)
EvLess(a, b) ==
    \/ TextLess(a.day, b.day)
    \/ a.day = b.day /\ TextLess(a.ts, b.ts)
    \/ a.day = b.day /\ a.ts = b.ts /\ NameRank(a.name) < NameRank(b.name)

\* the logs of at most n events of E, in the order of the clock
RECURSIVE ChronoLogs(_, _)
ChronoLogs(E, n) ==
    IF n = 0 THEN {<<>>}
    ELSE LET S == ChronoLogs(E, n - 1)
             longest == {s \in S : Len(s) = n - 1}
         IN  S \cup {Append(x[1], x[2]) :
                       x \in {y \in longest \X E :
                                y[1] = <<>> \/ EvLess(y[1][Len(y[1])], y[2])}}

Events(names, days, times) ==
    {[name |-> n, ts |-> t, day |-> d] : n \in names, d \in days, t \in times}

\* the time of the last event of user_name on day d in the log w
LastTs(w, user_name, d) ==
    TextMax({w[i].ts : i \in {j \in 1..Len(w) : w[j].name = user_name /\ w[j].day = d}})

\* worker 1 has just inserted the last event of user_name on day today
InitEngine(logs, names, today, pc) ==
    /\ wakeups \in logs
    /\ user_titles = <<>>
    /\ titles = seed_titles(<<>>)
    /\ page = NoPage
    /\ now = [day |-> today, ts |-> TextMax(ClockTimes)]
    /\ resp = NoResponse
    /\ \E n \in names :
          /\ \E i \in 1..Len(wakeups) : wakeups[i].name = n /\ wakeups[i].day = today
          /\ req = [p \in Procs |->
                      IF p = 1
                      THEN [IdleReq EXCEPT !.pc = pc, !.name = n, !.today = today,
                                           !.ts = LastTs(wakeups, n, today)]
                      ELSE IdleReq]

\* evaluate_and_grant_all_titles is called again for the same user and day
Rerun(p) ==
    /\ req[p].pc = "respond"
    /\ req[p].runs + 1 < MaxRuns
    /\ req' = [req EXCEPT ![p].pc = "streak", ![p].winners = <<>>,
                          ![p].runs = req[p].runs + 1]
    /\ UNCHANGED <<now, wakeups, user_titles, resp, titles, page>>

(***************************************************************************)
(* SpecStreak: evaluate_and_grant_streak_titles on the histories of alice  *)
(* over the days Epoch .. Epoch + MaxHist, one login a day.                *)
(***************************************************************************)
StreakToday == DayPlus(Epoch, MaxHist)

\* the log of one login of alice on each day of the set H, oldest first
HistoryLog(H) ==
    LET desc == SortDesc(H)
    IN  [k \in 1..Len(desc) |-> [name |-> "alice", ts |-> TextMin(ClockTimes),
                                 day |-> desc[Len(desc) + 1 - k]]]

InitStreak ==
    InitEngine({HistoryLog(H \cup {StreakToday}) :
                  H \in SUBSET {DayPlus(Epoch, k) : k \in 0..(MaxHist - 1)}},
               {"alice"}, StreakToday, "streak")

NextStreak ==
    \/ StreakRead(1)
    \/ GrantStreak(1)

SpecStreak == InitStreak /\ [][NextStreak]_vars

(***************************************************************************)
(* SpecRules: the three rules on the first wake-up of a day, on the logs   *)
(* of at most MaxLog events of alice over today and the MaxBack days       *)
(* before it, the times of a log drawn from one of three palettes.         *)
(***************************************************************************)
RegularTimes == {<<11, 59, 59>>, <<12, 0, 0>>, <<12, 30, 59>>}
NoonTimes == {<<11, 59, 59>>, <<12, 0, 0>>, <<23, 59, 0>>}
NoSleepTimes == {<<3, 30, 0>>, <<4, 0, 0>>, <<4, 0, 1>>}

RuleToday == DayPlus(Epoch, MaxBack)

RuleDays == {DayPlus(Epoch, k) : k \in 0..MaxBack}

InitRules ==
    InitEngine(UNION {ChronoLogs(Events({"alice"}, RuleDays, P), MaxLog) :
                        P \in {RegularTimes, NoonTimes, NoSleepTimes}},
               {"alice"}, RuleToday, "regular")

NextRules ==
    \/ RegularRead(1)
    \/ GrantRegular(1)
    \/ NoonRead(1)
    \/ GrantNoon(1)
    \/ NoSleepRead(1)
    \/ GrantNoSleep(1)

SpecRules == InitRules /\ [][NextRules]_vars

(***************************************************************************)
(* SpecEngine: evaluate_and_grant_all_titles, run MaxRuns times, on the    *)
(* logs of at most MaxLog events of alice over the same days.              *)
(***************************************************************************)
EngineTimes == {<<4, 0, 0>>, <<12, 0, 0>>}

InitEngineRuns ==
    InitEngine(ChronoLogs(Events({"alice"}, RuleDays, EngineTimes), MaxLog),
               {"alice"}, RuleToday, "streak")

NextEngine ==
    \/ StreakRead(1)
    \/ GrantStreak(1)
    \/ RegularRead(1)
    \/ GrantRegular(1)
    \/ NoonRead(1)
    \/ GrantNoon(1)
    \/ NoSleepRead(1)
    \/ GrantNoSleep(1)
    \/ EarlykingSelect(1)
    \/ GrantEarlyking(1)
    \/ Rerun(1)

SpecEngine == InitEngineRuns /\ [][NextEngine]_vars

(***************************************************************************)
(* SpecKing: evaluate_and_grant_earlyking_3 on the logs of at most MaxLog  *)
(* events of alice and bob over today and the MaxBack days before it.      *)
(***************************************************************************)
KingTimes == {<<5, 0, 0>>, <<6, 0, 0>>}

InitKing ==
    InitEngine(ChronoLogs(Events(Users, RuleDays, KingTimes), MaxLog),
               Users, RuleToday, "earlyking")

NextKing ==
    \/ EarlykingSelect(1)
    \/ GrantEarlyking(1)

SpecKing == InitKing /\ [][NextKing]_vars

(***************************************************************************)
(* The read endpoints and the start-up of a worker.                        *)
(***************************************************************************)
\* fetch_user_titles: the awards of user_name joined with their definitions,
\* ORDER BY ut.acquired_day DESC, t.id ASC
RECURSIVE UserTitleRows(_, _, _)
UserTitleRows(t, ut, X) ==
    IF X = {} THEN <<>>
    ELSE LET x == CHOOSE a \in X :
                    \A b \in X :
                       \/ a = b
                       \/ TextLess(ut[b[1]].acquired_day, ut[a[1]].acquired_day)
                       \/ /\ ut[a[1]].acquired_day = ut[b[1]].acquired_day
                          /\ a[2] < b[2]
                       \/ /\ ut[a[1]].acquired_day = ut[b[1]].acquired_day
                          /\ a[2] = b[2]
                          /\ a[1] < b[1]
         IN  <<[code |-> t[x[2]].code, is_hidden |-> t[x[2]].is_hidden,
                acquired_day |-> ut[x[1]].acquired_day]>>
             \o UserTitleRows(t, ut, X \ {x})

fetch_user_titles(t, ut, user_name) ==
    UserTitleRows(t, ut,
                  {x \in (1..Len(ut)) \X (1..Len(t)) :
                      /\ ut[x[1]].user_name = user_name
                      /\ ut[x[1]].title_code = t[x[2]].code})

\* the ?user= parameter of /titles after strip(): "" when absent or blank
UserQueries == {"", "alice"}

\* titles_page, first statement: the catalog with its holders
TitlesSelect ==
    /\ page.kind # "titles_select"
    /\ \E u \in UserQueries :
          page' = [kind |-> IF u = "" THEN "titles" ELSE "titles_select",
                   titles |-> fetch_titles_with_holders(titles, user_titles),
                   user_query |-> u, rows |-> <<>>]
    /\ UNCHANGED <<now, wakeups, user_titles, titles, req, resp>>

\* titles_page, second statement: the titles of the user asked for
UserTitlesSelect ==
    /\ page.kind = "titles_select"
    /\ page' = [page EXCEPT !.kind = "titles",
                            !.rows = fetch_user_titles(titles, user_titles,
                                                       page.user_query)]
    /\ UNCHANGED <<now, wakeups, user_titles, titles, req, resp>>

\* today(): the names and times of today's events, ORDER BY ts ASC; the order
\* of events of the same time is whatever the database returns
TodayPage ==
    /\ page.kind # "titles_select"
    /\ LET J == {j \in 1..Len(wakeups) : wakeups[j].day = now.day}
       IN  \E order \in [1..Cardinality(J) -> J] :
              /\ \A a, b \in 1..Cardinality(J) :
                    a < b => /\ order[a] # order[b]
                             /\ ~TextLess(wakeups[order[b]].ts, wakeups[order[a]].ts)
              /\ page' = [kind |-> "today", titles |-> <<>>, user_query |-> "",
                          rows |-> [k \in 1..Cardinality(J) |->
                                      [name |-> wakeups[order[k]].name,
                                       ts |-> wakeups[order[k]].ts]]]
    /\ UNCHANGED <<now, wakeups, user_titles, titles, req, resp>>

\* a worker process starts: init_db finds the tables, seed_titles upserts the list
SeedTitles ==
    /\ titles' = seed_titles(titles)
    /\ UNCHANGED <<now, wakeups, user_titles, req, resp, page>>

(***************************************************************************)
(* SpecCatalog: one worker serves the logins while the read endpoints are  *)
(* served and workers are started.  The database starts as in SpecRace,    *)
(* with the catalog seeded or, the seed of the first start-up having       *)
(* failed, still empty.                                                    *)
(***************************************************************************)
InitCatalog ==
    /\ \E n \in 1..MaxDay, t \in ClockTimes :
          /\ wakeups = RaceHistory(n, t)
          /\ now = [day |-> DayPlus(Epoch, n), ts |-> TextMin(ClockTimes)]
    /\ user_titles = <<>>
    /\ titles \in {<<>>, seed_titles(<<>>)}
    /\ page = NoPage
    /\ req = [p \in Procs |-> IdleReq]
    /\ resp = NoResponse

NextCatalog ==
    \/ NextOf({1})
    \/ TitlesSelect
    \/ UserTitlesSelect
    \/ TodayPage
    \/ SeedTitles

SpecCatalog == InitCatalog /\ [][NextCatalog]_vars

(***************************************************************************)
(* SpecTiers: two evaluations of the streak titles of alice interleave and *)
(* may fail.  alice has logged in on each of the last r days up to         *)
(* yesterday; worker 1 has inserted yesterday's event and is entering the  *)
(* engine, worker 2 is about to insert today's.                            *)
(***************************************************************************)
TiersYesterday == DayPlus(Epoch, MaxHist - 1)

InitTiers ==
    /\ \E r \in 1..MaxHist :
          wakeups = HistoryLog({DayPlus(Epoch, k) : k \in (MaxHist - r)..(MaxHist - 1)})
    /\ user_titles = <<>>
    /\ titles = seed_titles(<<>>)
    /\ page = NoPage
    /\ now = [day |-> StreakToday, ts |-> TextMin(ClockTimes)]
    /\ resp = NoResponse
    /\ req = [p \in Procs |->
                IF p = 1
                THEN [IdleReq EXCEPT !.pc = "streak", !.name = "alice",
                                     !.today = TiersYesterday, !.ts = TextMin(ClockTimes)]
                ELSE [IdleReq EXCEPT !.pc = "insert", !.name = "alice",
                                     !.today = StreakToday, !.ts = TextMin(ClockTimes)]]

NextTiers ==
    \/ \E p \in Procs : Insert(p)
    \/ \E p \in Procs : StreakRead(p)
    \/ \E p \in Procs : GrantStreak(p)
    \/ \E p \in Procs : Fail(p)

SpecTiers == InitTiers /\ [][NextTiers]_vars

(***************************************************************************)
(* What the claims speak of.                                               *)
(***************************************************************************)
\* the rows of the ledger that award title c to user u
AwardRows(u, c) ==
    {i \in 1..Len(user_titles) :
        user_titles[i].user_name = u /\ user_titles[i].title_code = c}

Holds(u, c) == AwardRows(u, c) # {}

\* the places of a request from which a grant is the next statement
GrantPcs ==
    {"grant_streak_3", "grant_streak_7", "grant_streak_14", "grant_regular",
     "grant_noon", "grant_no_sleep", "grant_earlyking"}

\* the title and the user of the grant a request at such a place is about to make
GrantCodeAt(pc) ==
    CASE pc = "grant_streak_3" -> "streak_3"
      [] pc = "grant_streak_7" -> "streak_7"
      [] pc = "grant_streak_14" -> "streak_14"
      [] pc = "grant_regular" -> "regular_3"
      [] pc = "grant_noon" -> "noon_3"
      [] pc = "grant_no_sleep" -> "no_sleep_3"
      [] pc = "grant_earlyking" -> "earlyking_3"

GrantUserAt(r) == IF r.pc = "grant_earlyking" THEN r.winners[1] ELSE r.name

\* the request of worker p has made its call to grant streak_3
PastStreak3(p) ==
    /\ req[p].streak >= 3
    /\ req[p].pc \notin {"idle", "insert", "streak", "grant_streak_3"}

\* every day the models' clocks and logs can show
AllDays == {DayPlus(Epoch, k) : k \in 0..(MaxDay + MaxBack + MaxHist)}

(***************************************************************************)
(* C1: in every reachable state, whatever the interleaving of the login    *)
(* requests and of their grants, the ledger holds at most one award for    *)
(* each pair of a user and a title.                                        *)
(***************************************************************************)
C1_OneAwardPerUserTitle ==
    \A u \in Users, c \in TitleCodes : Cardinality(AwardRows(u, c)) <= 1

\* two requests of the same user have both made their grant of streak_3
C1_RacedGrants ==
    \E p, q \in Procs :
        /\ p # q
        /\ req[p].name = req[q].name
        /\ PastStreak3(p)
        /\ PastStreak3(q)
        /\ Cardinality(AwardRows(req[p].name, "streak_3")) = 1

(***************************************************************************)
(* C2: a grant for a pair that already has its award changes nothing in    *)
(* the ledger, whatever day it passes, and the request goes on; so every   *)
(* award keeps the acquired_day its first grant stored.                    *)
(***************************************************************************)
C2_RegrantIsNoOp ==
    /\ [](\A i \in 1..Len(user_titles), d \in AllDays :
            grant_title_if_not_owned(user_titles, user_titles[i].user_name,
                                     user_titles[i].title_code, d) = user_titles)
    /\ [][/\ \A i \in 1..Len(user_titles) :
               i <= Len(user_titles') /\ user_titles'[i] = user_titles[i]
          /\ \A p \in Procs :
               (/\ req[p].pc \in GrantPcs
                /\ Holds(GrantUserAt(req[p]), GrantCodeAt(req[p].pc))
                /\ req'[p].pc \notin {req[p].pc, "idle"})
               => user_titles' = user_titles]_vars

\* a request has made its grant of streak_3 with a day other than the stored one
C2_LaterDayAbsorbed ==
    \E p \in Procs :
        /\ PastStreak3(p)
        /\ \E i \in AwardRows(req[p].name, "streak_3") :
              user_titles[i].acquired_day # req[p].today

(***************************************************************************)
(* C3: the streak computed from a descending list of distinct login days   *)
(* is 0 for the empty list and otherwise the length of the longest prefix  *)
(* in which each day is the calendar day before the one in front of it.    *)
(***************************************************************************)
\* the length of that prefix, by the calendar and not by ordinals
PrefixRun(days) ==
    IF days = <<>> THEN 0
    ELSE CHOOSE k \in 1..Len(days) :
           /\ \A i \in 1..(k - 1) : days[i + 1] = PrevDay(days[i])
           /\ k < Len(days) => days[k + 1] # PrevDay(days[k])

NoTwoAdjacent(days) ==
    \A i, j \in 1..Len(days) : days[j] # PrevDay(days[i])

C3_StreakIsLeadingRun ==
    /\ calc_streak_days(<<>>) = 0
    /\ calc_streak_days(<<<<2026, 3, 2>>, <<2026, 3, 1>>, <<2026, 2, 28>>>>) = 3
    /\ calc_streak_days(<<<<2026, 3, 2>>, <<2026, 2, 28>>>>) = 1
    /\ \A p \in Procs :
          req[p].streak # NoStreak =>
             /\ req[p].streak = PrefixRun(req[p].days_desc)
             /\ NoTwoAdjacent(req[p].days_desc) => req[p].streak = 1

\* a run of three days, then a gap, then at least three more days
C3_DaysAfterGap ==
    \E p \in Procs :
        /\ req[p].streak = 3
        /\ Len(req[p].days_desc) >= 6
        /\ \E i \in 4..(Len(req[p].days_desc) - 1) :
              req[p].days_desc[i + 1] = PrevDay(req[p].days_desc[i])

(***************************************************************************)
(* C4: when a streak evaluation has completed, the user holds every streak *)
(* title whose threshold is at most the computed streak, and the           *)
(* evaluation has created no award but streak titles of that user with     *)
(* such a threshold.                                                       *)
(***************************************************************************)
StreakTiers ==
    {[code |-> "streak_3", days |-> 3], [code |-> "streak_7", days |-> 7],
     [code |-> "streak_14", days |-> 14]}

StreakPcs == {"streak", "grant_streak_3", "grant_streak_7", "grant_streak_14"}

C4_StreakTiersGranted ==
    /\ [](\A p \in Procs :
            (req[p].pc = "regular" /\ req[p].streak # NoStreak) =>
               \A t \in StreakTiers :
                  t.days <= req[p].streak => Holds(req[p].name, t.code))
    /\ [][\A p \in Procs :
            (req[p].pc \in StreakPcs /\ req'[p] # req[p]) =>
               \A i \in (Len(user_titles) + 1)..Len(user_titles') :
                  /\ user_titles'[i].user_name = req[p].name
                  /\ \E t \in StreakTiers :
                        /\ t.code = user_titles'[i].title_code
                        /\ t.days <= req'[p].streak]_vars

\* a streak of 7 to 13 days: two tiers held, the third not
C4_SevenNotFourteen ==
    \E p \in Procs :
        /\ req[p].pc = "regular"
        /\ req[p].streak >= 7
        /\ req[p].streak < 14
        /\ Holds(req[p].name, "streak_3")
        /\ Holds(req[p].name, "streak_7")
        /\ ~Holds(req[p].name, "streak_14")

(***************************************************************************)
(* The words of the rules, read off the log by the calendar and the clock. *)
(***************************************************************************)
\* the days on which user u has an event
DaysOf(u) == {wakeups[i].day : i \in {j \in 1..Len(wakeups) : wakeups[j].name = u}}

\* the three most recent days of u when they are calendar-consecutive, else <<>>
RecentThree(u) ==
    IF DaysOf(u) = {} THEN <<>>
    ELSE LET d0 == CHOOSE d \in DaysOf(u) :
                      \A e \in DaysOf(u) : ParseDay(e) <= ParseDay(d)
             d1 == PrevDay(d0)
             d2 == PrevDay(d1)
         IN  IF d1 \in DaysOf(u) /\ d2 \in DaysOf(u) THEN <<d0, d1, d2>> ELSE <<>>

SecondOfDay(ts) == ts[1] * 3600 + ts[2] * 60 + ts[3]

MinuteOfDay(ts) == ts[1] * 60 + ts[2]

\* the times of the events of user u on day d
TimesOn(u, d) ==
    {wakeups[i].ts : i \in {j \in 1..Len(wakeups) :
                              wakeups[j].name = u /\ wakeups[j].day = d}}

\* the earliest of them
FirstWake(u, d) ==
    CHOOSE t \in TimesOn(u, d) : \A z \in TimesOn(u, d) : SecondOfDay(t) <= SecondOfDay(z)

\* rows as get_user_wakeups returns them, for three consecutive days ending 2026-03-01
ExampleLogs(t0, t1, t2) ==
    <<[day |-> <<2026, 3, 1>>, ts |-> t0], [day |-> <<2026, 2, 28>>, ts |-> t1],
      [day |-> <<2026, 2, 27>>, ts |-> t2]>>

(***************************************************************************)
(* C5: the regularity rule grants regular_3 exactly when the three most    *)
(* recent login days of the user are calendar-consecutive and the minutes  *)
(* of day (seconds dropped, no wrap at midnight) of the first wake-ups of  *)
(* neighbouring days differ by at most 30; otherwise it grants nothing.    *)
(***************************************************************************)
RegularDue(u) ==
    LET r == RecentThree(u)
    IN  /\ r # <<>>
        /\ Abs(MinuteOfDay(FirstWake(u, r[1])) - MinuteOfDay(FirstWake(u, r[2]))) <= 30
        /\ Abs(MinuteOfDay(FirstWake(u, r[2])) - MinuteOfDay(FirstWake(u, r[3]))) <= 30

PastRegular == {"noon", "grant_noon", "no_sleep", "grant_no_sleep", "earlyking"}

C5_RegularRule ==
    /\ regular_check(ExampleLogs(<<7, 45, 0>>, <<7, 20, 0>>, <<7, 0, 0>>))
    /\ ~regular_check(ExampleLogs(<<8, 25, 0>>, <<7, 40, 0>>, <<7, 0, 0>>))
    /\ ~regular_check(ExampleLogs(<<0, 10, 0>>, <<23, 50, 0>>, <<23, 50, 0>>))
    /\ \A p \in Procs :
          req[p].pc \in PastRegular =>
             /\ Holds(req[p].name, "regular_3") <=> RegularDue(req[p].name)
             /\ req[p].regular_ok <=> RegularDue(req[p].name)

\* granted on the first wake-ups, where a later login of today is 31 minutes off
C5_FirstWakeDecides ==
    \E p \in Procs :
        /\ req[p].pc \in PastRegular
        /\ Holds(req[p].name, "regular_3")
        /\ FirstWake(req[p].name, req[p].today) = <<12, 0, 0>>
        /\ <<12, 30, 59>> \in TimesOn(req[p].name, req[p].today)
        /\ FirstWake(req[p].name, PrevDay(req[p].today)) = <<11, 59, 59>>

(***************************************************************************)
(* C6: the night-owl rule grants noon_3 exactly when the three most recent *)
(* login days of the user are calendar-consecutive and the first wake-up   *)
(* of each of them has hour >= 12; otherwise it grants nothing.            *)
(***************************************************************************)
NoonDue(u) ==
    LET r == RecentThree(u)
    IN  /\ r # <<>>
        /\ \A k \in 1..3 : FirstWake(u, r[k])[1] >= 12

PastNoon == {"no_sleep", "grant_no_sleep", "earlyking"}

C6_NoonRule ==
    /\ noon_check(ExampleLogs(<<23, 59, 0>>, <<14, 0, 0>>, <<13, 0, 0>>))
    /\ ~noon_check(ExampleLogs(<<23, 59, 0>>, <<11, 59, 59>>, <<13, 0, 0>>))
    /\ \A p \in Procs :
          req[p].pc \in PastNoon =>
             /\ Holds(req[p].name, "noon_3") <=> NoonDue(req[p].name)
             /\ req[p].noon_ok <=> NoonDue(req[p].name)

\* no grant: every day has a login after noon, but one has a first wake-up before
C6_MorningLoginBlocks ==
    \E p \in Procs :
        /\ req[p].pc \in PastNoon
        /\ ~Holds(req[p].name, "noon_3")
        /\ RecentThree(req[p].name) # <<>>
        /\ \A k \in 1..3 :
              \E t \in TimesOn(req[p].name, RecentThree(req[p].name)[k]) : t[1] >= 12

(***************************************************************************)
(* C7: the insomniac rule grants no_sleep_3 exactly when the three most    *)
(* recent login days of the user are calendar-consecutive and the first    *)
(* wake-up of each of them is at 04:00:00 or earlier.                      *)
(***************************************************************************)
NoSleepDue(u) ==
    LET r == RecentThree(u)
    IN  /\ r # <<>>
        /\ \A k \in 1..3 : SecondOfDay(FirstWake(u, r[k])) <= 4 * 3600

PastNoSleep == {"earlyking"}

C7_NoSleepRule ==
    /\ no_sleep_check(ExampleLogs(<<4, 0, 0>>, <<3, 30, 0>>, <<3, 0, 0>>))
    /\ ~no_sleep_check(ExampleLogs(<<4, 0, 1>>, <<3, 30, 0>>, <<3, 0, 0>>))
    /\ \A p \in Procs :
          req[p].pc \in PastNoSleep =>
             /\ Holds(req[p].name, "no_sleep_3") <=> NoSleepDue(req[p].name)
             /\ req[p].nosleep_ok <=> NoSleepDue(req[p].name)

\* granted with a first wake-up at 04:00:00 sharp
C7_FourSharpGranted ==
    \E p \in Procs :
        /\ req[p].pc \in PastNoSleep
        /\ Holds(req[p].name, "no_sleep_3")
        /\ \E k \in 1..3 :
              FirstWake(req[p].name, RecentThree(req[p].name)[k]) = <<4, 0, 0>>

(***************************************************************************)
(* C8: an evaluation for `today` grants earlyking_3 exactly when today and *)
(* the two days before it each have an event and the same person is the    *)
(* fastest riser of each (earliest event, ties to the smallest name); the  *)
(* award goes to that person, whoever triggered the evaluation.            *)
(***************************************************************************)
\* the day k days before d, by ordinals
DaysBefore(d, k) == CHOOSE e \in AllDays \cup {PrevDay(Epoch), PrevDay(PrevDay(Epoch))} :
                       ParseDay(e) = ParseDay(d) - k

\* u is the fastest riser of day d
IsFastest(u, d) ==
    /\ TimesOn(u, d) # {}
    /\ \A v \in Users \ {u} :
          TimesOn(v, d) # {} =>
             \/ SecondOfDay(FirstWake(u, d)) < SecondOfDay(FirstWake(v, d))
             \/ /\ SecondOfDay(FirstWake(u, d)) = SecondOfDay(FirstWake(v, d))
                /\ NameRank(u) < NameRank(v)

KingOf(today) == {u \in Users : \A k \in 0..2 : IsFastest(u, DaysBefore(today, k))}

C8_EarlykingRule ==
    \A p \in Procs :
        req[p].pc = "respond" =>
           /\ \A u \in Users : Holds(u, "earlyking_3") <=> u \in KingOf(req[p].today)
           /\ \A u \in KingOf(req[p].today) : req[p].earlyking_user = u
           /\ KingOf(req[p].today) = {} => req[p].earlyking_user = ""

\* the award went to a person other than the one whose login triggered it
C8_AwardToAnother ==
    \E p \in Procs, u \in Users :
        /\ req[p].pc = "respond"
        /\ u # req[p].name
        /\ Holds(u, "earlyking_3")

(***************************************************************************)
(* C9: the result of an engine evaluation reports a title as granted, and  *)
(* the success page then announces it as acquired, only when that          *)
(* evaluation created the award: whenever a request raises the flag of a   *)
(* title (regular_ok, noon_ok, nosleep_ok, earlyking_user), the same step  *)
(* has added the row of that award to the ledger.                          *)
(***************************************************************************)
\* this step has appended the award of title c to user u
AwardCreated(u, c) ==
    /\ Len(user_titles') = Len(user_titles) + 1
    /\ user_titles'[Len(user_titles')].user_name = u
    /\ user_titles'[Len(user_titles')].title_code = c

C9_ReportsOnlyNewGrants ==
    [][\A p \in Procs :
         /\ (req'[p].regular_ok /\ ~req[p].regular_ok)
               => AwardCreated(req[p].name, "regular_3")
         /\ (req'[p].noon_ok /\ ~req[p].noon_ok)
               => AwardCreated(req[p].name, "noon_3")
         /\ (req'[p].nosleep_ok /\ ~req[p].nosleep_ok)
               => AwardCreated(req[p].name, "no_sleep_3")
         /\ (req'[p].earlyking_user # "" /\ req[p].earlyking_user = "")
               => AwardCreated(req'[p].earlyking_user, "earlyking_3")]_vars

(***************************************************************************)
(* C10: running the engine again for the same user and day, with no event  *)
(* recorded in between, leaves the ledger as the first run left it and     *)
(* computes the same streak.                                               *)
(***************************************************************************)
C10_RerunIdempotent ==
    [][\A p \in Procs :
         req[p].runs >= 1 =>
            /\ user_titles' = user_titles
            /\ wakeups' = wakeups
            /\ (req[p].pc = "streak" /\ req'[p].pc # "streak")
                  => req'[p].streak = req[p].streak]_vars

\* a second run has completed on a ledger to which the first run granted titles
C10_SecondRunDone ==
    \E p \in Procs :
        /\ req[p].runs = 1
        /\ req[p].pc = "respond"
        /\ req[p].streak >= 3
        /\ Len(user_titles) >= 3

(***************************************************************************)
(* C11: in every reachable state the visible catalog lists exactly the     *)
(* title definitions that are not hidden or have a holder, each once and   *)
(* with exactly its holders: of the seeded catalog, the four titles that   *)
(* are not hidden are always listed, and noon_3, earlyking_3 and           *)
(* no_sleep_3 are listed exactly while some user holds them.               *)
(***************************************************************************)
HoldersOf(c) == {u \in Users : Holds(u, c)}

HiddenCodes == {"noon_3", "earlyking_3", "no_sleep_3"}

\* the positions at which the list cat shows the title c
ListedAt(cat, c) == {k \in 1..Len(cat) : cat[k].code = c}

C11_VisibleCatalog ==
    LET cat == fetch_titles_with_holders(titles, user_titles)
    IN  /\ \A k \in 1..Len(cat) : \E i \in 1..Len(titles) : titles[i].code = cat[k].code
        /\ \A i \in 1..Len(titles) :
              LET d == titles[i]
                  at == ListedAt(cat, d.code)
              IN  IF d.is_hidden /\ HoldersOf(d.code) = {}
                  THEN at = {}
                  ELSE /\ Cardinality(at) = 1
                       /\ \A k \in at :
                             /\ cat[k].is_hidden = d.is_hidden
                             /\ {cat[k].holders[h] : h \in 1..Len(cat[k].holders)}
                                   = HoldersOf(d.code)
                             /\ Len(cat[k].holders) = Cardinality(HoldersOf(d.code))
        /\ titles # <<>> =>
              \A c \in TitleCodes :
                 IF c \in HiddenCodes
                 THEN (ListedAt(cat, c) # {}) <=> (HoldersOf(c) # {})
                 ELSE ListedAt(cat, c) # {}

\* /titles has been served in a state where noon_3 is listed with its holder
\* alice while no_sleep_3, which nobody holds, is absent
C11_HiddenTitleAppears ==
    /\ page.kind = "titles"
    /\ page.titles = fetch_titles_with_holders(titles, user_titles)
    /\ \E k \in 1..Len(page.titles) :
          /\ page.titles[k].code = "noon_3"
          /\ page.titles[k].holders = <<"alice">>
    /\ ListedAt(page.titles, "no_sleep_3") = {}
    /\ ListedAt(page.titles, "streak_7") # {}

(***************************************************************************)
(* C12: a wake-up event is created only by a correct quiz answer.  A POST  *)
(* with an empty name, no choice, a choice that is not an integer or a     *)
(* wrong answer changes neither table and starts no request; a correct     *)
(* answer takes the name and the clock's day and time, and the engine is   *)
(* entered only by the step that appends exactly that one event.           *)
(***************************************************************************)
\* the positions of a request inside evaluate_and_grant_all_titles
EnginePcs == GrantPcs \cup {"streak", "regular", "noon", "no_sleep", "earlyking"}

\* this step appends the one event of the request of worker p
EventAppended(p) ==
    wakeups' = Append(wakeups, [name |-> req[p].name, ts |-> req[p].ts,
                                day |-> req[p].today])

C12_EventOnlyOnCorrectAnswer ==
    [][/\ \A p \in Procs, field \in FormNames, choice \in FormChoices :
             PostForm(p, field, choice) =>
                IF field[2] = "" \/ choice # "right"
                THEN /\ wakeups' = wakeups
                     /\ user_titles' = user_titles
                     /\ req' = req
                ELSE /\ wakeups' = wakeups
                     /\ user_titles' = user_titles
                     /\ req'[p].pc = "insert"
                     /\ req'[p].name = field[2]
                     /\ req'[p].today = now.day
                     /\ req'[p].ts = now.ts
       /\ wakeups' # wakeups =>
             \E p \in Procs : /\ req[p].pc = "insert"
                              /\ req[p].name # ""
                              /\ EventAppended(p)
       /\ \A p \in Procs :
             (req'[p].pc \in EnginePcs /\ req[p].pc \notin EnginePcs) =>
                /\ req[p].pc = "insert"
                /\ EventAppended(p)]_vars

\* a wrong answer has been turned away after an earlier login, and the next
\* correct answer has been recorded and is entering the engine
C12_RejectedThenRecorded ==
    /\ resp.kind = "wrong"
    /\ Len(wakeups) = 2
    /\ req[1].pc = "streak"
    /\ wakeups[2] = [name |-> req[1].name, ts |-> req[1].ts, day |-> req[1].today]

(***************************************************************************)
(* C13: the event log and the award ledger are append-only.  No step of a  *)
(* login, of the engine, of a grant, of a re-seed of the catalog or of a   *)
(* read endpoint changes or removes a row of wakeups or of user_titles,    *)
(* and no step a request takes inside the engine writes to wakeups.        *)
(***************************************************************************)
\* the rows of a are the first rows of b, unchanged
IsPrefix(a, b) ==
    /\ Len(a) <= Len(b)
    /\ \A i \in 1..Len(a) : b[i] = a[i]

C13_AppendOnly ==
    [][/\ IsPrefix(wakeups, wakeups')
       /\ IsPrefix(user_titles, user_titles')
       /\ (titles' # titles \/ page' # page) =>
             (wakeups' = wakeups /\ user_titles' = user_titles)
       /\ \A p \in Procs :
             (req[p].pc \in EnginePcs /\ req'[p] # req[p]) => wakeups' = wakeups]_vars

\* after two more logins and the grants of the engine, with the catalog
\* seeded, /today has been served and shows both events of the day
C13_GrownAndRead ==
    /\ Len(wakeups) >= 4
    /\ Len(user_titles) >= 2
    /\ titles = seed_titles(<<>>)
    /\ page.kind = "today"
    /\ Len(page.rows) = 2

(***************************************************************************)
(* C14: the streak used for granting is the run of consecutive login days  *)
(* ending at the `today` of the evaluation: under any interleaving of      *)
(* login requests, an award of streak_N (N = 3, 7, 14) with acquired_day D *)
(* exists only if its user has a wake-up event on each of the N days       *)
(* D, D-1, ..., D-(N-1).                                                   *)
(***************************************************************************)
StreakTierOf(c) == IF c = "streak_3" THEN 3 ELSE IF c = "streak_7" THEN 7 ELSE 14

HasEventOn(u, d) == \E j \in 1..Len(wakeups) : wakeups[j].name = u /\ wakeups[j].day = d

C14_StreakEndsAtAcquiredDay ==
    \A i \in 1..Len(user_titles) :
       LET r == user_titles[i]
       IN  r.title_code \in {"streak_3", "streak_7", "streak_14"} =>
              \A k \in 0..(StreakTierOf(r.title_code) - 1) :
                 HasEventOn(r.user_name, DayMinus(r.acquired_day, k))

(***************************************************************************)
(* C15: in every reachable state, also when an evaluation is aborted       *)
(* between two grants or two evaluations of the same user interleave, the  *)
(* streak tiers are nested: who holds streak_14 holds streak_7, and who    *)
(* holds streak_7 holds streak_3.                                          *)
(***************************************************************************)
C15_TiersNested ==
    \A u \in Users :
       /\ Holds(u, "streak_14") => Holds(u, "streak_7")
       /\ Holds(u, "streak_7") => Holds(u, "streak_3")

\* one evaluation was aborted after its grant of streak_7 and before that of
\* streak_14, while the other, with a streak of 14 or more, is at its first grant
C15_AbortedBetweenGrants ==
    /\ resp.kind = "error"
    /\ req[1].pc = "idle"
    /\ Holds("alice", "streak_7")
    /\ ~Holds("alice", "streak_14")
    /\ req[2].pc = "grant_streak_3"
    /\ req[2].streak >= 14

====
